---- MODULE Spec2Model ----
(***************************************************************************)
(* Model of the finance tracker of src/app.py: the FinanceTracker object   *)
(* (balances, the three transaction collections), its JSON record on disk  *)
(* and the day-by-day projection generate_daily_forecast.                  *)
(*                                                                         *)
(* Abstractions: amounts and balances are integers (the code uses Python   *)
(* numbers); a datetime is its calendar date [year, month, day] (the code  *)
(* compares and sorts one-time transactions by x.date.date() only); an     *)
(* ISO-8601 string is the tuple <<year, month, day>> of its fields.        *)
(***************************************************************************)
EXTENDS Integers, Sequences, FiniteSets, TLC

VARIABLES
    initial_balance,        \* FinanceTracker.initial_balance
    current_balance,        \* FinanceTracker.current_balance
    monthly_incomes,        \* FinanceTracker.monthly_incomes
    monthly_expenses,       \* FinanceTracker.monthly_expenses
    one_time_transactions,  \* FinanceTracker.one_time_transactions
    data_file,              \* content of finance_data.json
    op,                     \* the last operation called and its arguments
    raised,                 \* whether the last operation raised
    forecast_data,          \* the list built by the last generate_daily_forecast
    threads                 \* the add operations under way in concurrent callbacks

tracker == <<initial_balance, current_balance, monthly_incomes,
             monthly_expenses, one_time_transactions>>

vars == <<initial_balance, current_balance, monthly_incomes, monthly_expenses,
          one_time_transactions, data_file, op, raised, forecast_data,
          threads>>

----------------------------------------------------------------------------
(* Bounds of the model. *)

\* largest number of stored transactions (all three collections together)
\* at which an add operation is still explored
MaxTx == 4

\* largest horizon (max_days) passed to generate_daily_forecast; it also
\* stands for the default horizon of line 162
MaxDays == 5

\* largest number of transactions of a tracker whose projection is examined
\* on its own (SpecForecast)
MaxLen == 3

----------------------------------------------------------------------------
(* Calendar: datetime, timedelta(days=1), date comparison. *)

Date(y, m, d) == [year |-> y, month |-> m, day |-> d]

IsLeap(y) == (y % 4 = 0 /\ y % 100 # 0) \/ (y % 400 = 0)

DaysInMonth(y, m) ==
    IF m = 2 THEN (IF IsLeap(y) THEN 29 ELSE 28)
    ELSE IF m \in {4, 6, 9, 11} THEN 30 ELSE 31

\* every month is taken to have 31 days
NextDay_NoShortMonths(d) ==
    IF d.day < 31 THEN [d EXCEPT !.day = d.day + 1]
    ELSE IF d.month < 12 THEN [year |-> d.year, month |-> d.month + 1, day |-> 1]
    ELSE [year |-> d.year + 1, month |-> 1, day |-> 1]

\* d + timedelta(days=1)
NextDay(d) ==
    IF d.day < DaysInMonth(d.year, d.month)
    THEN Date(d.year, d.month, d.day + 1)
    ELSE IF d.month < 12 THEN Date(d.year, d.month + 1, 1)
    ELSE Date(d.year + 1, 1, 1)

RECURSIVE AddDays(_, _)
\* d + timedelta(days=k), k >= 0
AddDays(d, k) == IF k = 0 THEN d ELSE AddDays(NextDay(d), k - 1)

\* a.date() < b.date()
DateLess(a, b) ==
    \/ a.year < b.year
    \/ a.year = b.year /\ a.month < b.month
    \/ a.year = b.year /\ a.month = b.month /\ a.day < b.day

\* t.date.isoformat(): the fields of the ISO string
isoformat(d) == <<d.year, d.month, d.day>>

\* whether datetime.fromisoformat accepts the string
IsoValid(s) ==
    /\ Len(s) = 3
    /\ s[1] \in 1..9999
    /\ s[2] \in 1..12
    /\ s[3] \in 1..DaysInMonth(s[1], s[2])

\* month and day are read in the wrong order
fromisoformat_DayFirst(s) == Date(s[1], s[3], s[2])

\* datetime.fromisoformat(s) of an accepted string
fromisoformat(s) == Date(s[1], s[2], s[3])

----------------------------------------------------------------------------
(* The dataclasses and their dictionaries. *)

\* Transaction(day, amount, name, color)
Transaction(day, amount, name, color) ==
    [day |-> day, amount |-> amount, name |-> name, color |-> color]

\* OneTimeTransaction(date, amount, type, name, color)
OneTimeTransaction(date, amount, type, name, color) ==
    [date |-> date, amount |-> amount, type |-> type, name |-> name,
     color |-> color]

\* asdict(t) of a Transaction as it is written to the file; keys_ok tells
\* whether the dictionary has exactly the keys Transaction(**t) accepts
TxDict(t) ==
    [keys_ok |-> TRUE, day |-> t.day, amount |-> t.amount, name |-> t.name,
     color |-> t.color]

\* {**asdict(t), 'date': t.date.isoformat()} of a OneTimeTransaction
OtDict(t) ==
    [keys_ok |-> TRUE, date |-> isoformat(t.date), amount |-> t.amount,
     type |-> t.type, name |-> t.name, color |-> t.color]

\* Transaction(**t)
TxFromDict(t) == Transaction(t.day, t.amount, t.name, t.color)

\* OneTimeTransaction(**t) after t['date'] = datetime.fromisoformat(t['date'])
OtFromDict(t) ==
    OneTimeTransaction(fromisoformat(t.date), t.amount, t.type, t.name, t.color)

----------------------------------------------------------------------------
(* The persisted record. *)

AllKeys == {"initial_balance", "current_balance", "monthly_incomes",
            "monthly_expenses", "one_time_transactions"}

\* no finance_data.json
NoFile ==
    [kind |-> "absent", keys |-> {}, initial_balance |-> 0,
     current_balance |-> 0, monthly_incomes |-> <<>>,
     monthly_expenses |-> <<>>, one_time_transactions |-> <<>>]

\* a file that cannot be read, is not JSON, or is not a JSON object
Malformed ==
    [kind |-> "malformed", keys |-> {}, initial_balance |-> 0,
     current_balance |-> 0, monthly_incomes |-> <<>>,
     monthly_expenses |-> <<>>, one_time_transactions |-> <<>>]

\* the dictionary save_data builds (lines 76-85)
Snapshot(ib, cb, mi, me, ot) ==
    [kind |-> "json", keys |-> AllKeys, initial_balance |-> ib,
     current_balance |-> cb, monthly_incomes |-> [i \in 1..Len(mi) |-> TxDict(mi[i])],
     monthly_expenses |-> [i \in 1..Len(me) |-> TxDict(me[i])],
     one_time_transactions |-> [i \in 1..Len(ot) |-> OtDict(ot[i])]]

\* what write_text can do to the file: write it whole ("ok"), fail before
\* the file is opened ("unchanged"), or fail after it was truncated ("torn")
WriteOutcomes == {"ok", "unchanged", "torn"}

\* the state is never written
save_data_Skipped(ib, cb, mi, me, ot, file, w) == file

\* self.data_file.write_text(json.dumps(data, indent=2)) (line 87): the
\* file after the attempt
write_text(data, file, w) ==
    IF w = "ok" THEN data
    ELSE IF w = "torn" THEN Malformed
    ELSE file

\* save_data: the file after the call; every exception is caught and logged
save_data(ib, cb, mi, me, ot, file, w) ==
    write_text(Snapshot(ib, cb, mi, me, ot), file, w)

----------------------------------------------------------------------------
(* Construction: __init__, load_data, _set_default_transactions. *)

\* the tracker's fields and the file, as one value
State(ib, cb, mi, me, ot, file) ==
    [ib |-> ib, cb |-> cb, mi |-> mi, me |-> me, ot |-> ot, file |-> file]

DefaultIncomes == <<Transaction(21, 13000, "Pension", "green")>>

DefaultExpenses == <<Transaction(14, 35000, "Rent", "red"),
                     Transaction(22, 900, "Internet", "darkred")>>

\* only the incomes are replaced
set_default_transactions_IncomesOnly(st, w) ==
    [st EXCEPT !.mi = DefaultIncomes,
               !.file = save_data(st.ib, st.cb, DefaultIncomes, st.me, st.ot,
                                  st.file, w)]

\* _set_default_transactions: both recurring collections are replaced and
\* the state is saved
set_default_transactions(st, w) ==
    State(st.ib, st.cb, DefaultIncomes, DefaultExpenses, st.ot,
          save_data(st.ib, st.cb, DefaultIncomes, DefaultExpenses, st.ot,
                    st.file, w))

\* data.get(key, default) of a sequence-valued key
GetSeq(file, key, value) == IF key \in file.keys THEN value ELSE <<>>

\* whether Transaction(**t) raises for some t of the list
TxListRaises(ds) == \E i \in 1..Len(ds) : ~ds[i].keys_ok

\* whether the loop body of lines 67-68 raises for t
OtRaises(t) == ~IsoValid(t.date) \/ ~t.keys_ok

RECURSIVE OtLoaded(_)
\* the one-time transactions appended before the loop of lines 66-68 ends
\* or raises
OtLoaded(ds) ==
    IF ds = <<>> \/ OtRaises(Head(ds)) THEN <<>>
    ELSE <<OtFromDict(Head(ds))>> \o OtLoaded(Tail(ds))

\* load_data: assignments happen in the order of the code, the first
\* exception ends them and installs the default transactions
load_data(st, w) ==
    LET f    == st.file
        ib   == IF "initial_balance" \in f.keys THEN f.initial_balance ELSE st.ib
        cb   == IF "current_balance" \in f.keys THEN f.current_balance ELSE st.cb
        miD  == GetSeq(f, "monthly_incomes", f.monthly_incomes)
        meD  == GetSeq(f, "monthly_expenses", f.monthly_expenses)
        otD  == GetSeq(f, "one_time_transactions", f.one_time_transactions)
        mi   == [i \in 1..Len(miD) |-> TxFromDict(miD[i])]
        me   == [i \in 1..Len(meD) |-> TxFromDict(meD[i])]
        ot   == OtLoaded(otD)
    IN  IF f.kind = "absent" THEN st
        ELSE IF f.kind = "malformed" THEN set_default_transactions(st, w)
        ELSE IF TxListRaises(miD)
             THEN set_default_transactions(State(ib, cb, st.mi, st.me, st.ot, f), w)
        ELSE IF TxListRaises(meD)
             THEN set_default_transactions(State(ib, cb, mi, st.me, st.ot, f), w)
        ELSE IF Len(ot) < Len(otD)
             THEN set_default_transactions(State(ib, cb, mi, me, ot, f), w)
        ELSE State(ib, cb, mi, me, ot, f)

\* whether __init__ installs the defaults after load_data (line 37)
NoRecurring(st) == st.mi = <<>> /\ st.me = <<>>

\* FinanceTracker(balance) with the file as it is found
init(balance, file, w) ==
    LET st == load_data(State(balance, balance, <<>>, <<>>, <<>>, file), w)
    IN  IF NoRecurring(st) THEN set_default_transactions(st, w) ELSE st

----------------------------------------------------------------------------
(* Inputs. *)

NoDate == Date(0, 0, 0)     \* date=None
NoName == ""                \* name=None

\* the dates on which generate_daily_forecast is called (datetime.now() of
\* line 164): before the default transactions of the 21st and 22nd, and
\* before the end of a month of 31, of 28 and of 30 days
StartDates == {Date(2026, 1, 20), Date(2026, 1, 30), Date(2026, 2, 27),
               Date(2026, 4, 29)}

\* datetime.now() of lines 98 and 113
NowInputs == {Date(2026, 1, 31)}

\* <<amount, date, name>> of add_income and add_expense
OneTimeInputs ==
    { <<-5, Date(2026, 1, 22), "x">>, <<0, NoDate, NoName>>,
      <<500, NoDate, NoName>>, <<500, Date(2026, 1, 22), "x">>,
      <<500, Date(2026, 5, 1), "x">> }

\* <<day, amount>> of add_monthly_income and add_monthly_expense
MonthlyInputs ==
    { <<0, 500>>, <<32, 500>>, <<1, -5>>, <<31, 0>>, <<32, -5>>,
      <<1, 500>>, <<31, 500>> }

BalanceInputs == {-1, 0, 500}

\* the balance argument of the constructor (create_app passes 0)
CtorBalances == {0, 500}

\* a recurring dictionary that Transaction(**t) rejects (a key is missing)
BadTx == [keys_ok |-> FALSE, day |-> 1, amount |-> 1, name |-> "bad",
          color |-> "red"]

JsonFile(keys, ib, cb, mi, me, ot) ==
    [kind |-> "json", keys |-> keys, initial_balance |-> ib,
     current_balance |-> cb, monthly_incomes |-> mi, monthly_expenses |-> me,
     one_time_transactions |-> ot]

\* a one-time dictionary of the file
OtD(date, amount, type, name) ==
    [keys_ok |-> TRUE, date |-> date, amount |-> amount, type |-> type,
     name |-> name, color |-> "red"]

\* the files a tracker may find when it is constructed for the first time
InitialFiles ==
    { NoFile,
      Malformed,
      \* {}
      JsonFile({}, 0, 0, <<>>, <<>>, <<>>),
      \* a record without recurring transactions
      JsonFile(AllKeys, 500, 500, <<>>, <<>>,
               <<OtD(<<2026, 1, 31>>, 500, "income", "gift")>>),
      \* a well-formed record
      JsonFile(AllKeys, 500, 0,
               <<TxDict(Transaction(31, 500, "pay", "green"))>>,
               <<TxDict(Transaction(1, 500, "bill", "red"))>>,
               <<OtD(<<2026, 1, 31>>, -500, "expense", "fee")>>),
      \* well-formed JSON whose values no add operation would have accepted
      JsonFile(AllKeys, 500, 500,
               <<TxDict(Transaction(32, -5, "odd", "green"))>>,
               <<TxDict(Transaction(0, 0, "odd", "red"))>>,
               <<OtD(<<2026, 1, 22>>, -500, "income", "odd")>>),
      \* a recurring expense with a missing key
      JsonFile(AllKeys, 500, 500,
               <<TxDict(Transaction(30, 500, "pay", "green"))>>, <<BadTx>>,
               <<>>),
      \* a one-time transaction with an impossible date
      JsonFile(AllKeys, 500, 500,
               <<TxDict(Transaction(30, 500, "pay", "green"))>>, <<>>,
               <<OtD(<<2026, 1, 22>>, 500, "income", "gift"),
                 OtD(<<2026, 2, 30>>, 500, "income", "late")>>) }

----------------------------------------------------------------------------
(* The record of the last call. *)

NoArgs ==
    [name |-> "", day |-> 0, amount |-> 0, date |-> NoDate, tname |-> NoName,
     balance |-> 0, max_days |-> 0, start_date |-> NoDate, now |-> NoDate,
     write |-> "none", file |-> NoFile,
     \* of update_forecast: the triggering button, the form values that are
     \* None, the transaction type, the tracker method invoked, and whether
     \* an exception was caught
     button |-> "", missing |-> {}, ttype |-> "", invoked |-> "none",
     caught |-> FALSE]

\* the tracker and the file as a State
Current ==
    State(initial_balance, current_balance, monthly_incomes, monthly_expenses,
          one_time_transactions, data_file)

\* the callbacks that can run at the same time
Threads == {1, 2}

\* position of a callback inside an add operation: "idle" before the call,
\* "appended" after the append, "built" after save_data built its
\* dictionary, "done" after the call returned or raised
\* method is the add being called, index the place of the appended
\* transaction in its collection, data the dictionary built by save_data,
\* write the outcome of write_text
NoThread ==
    [pc |-> "idle", method |-> "", raised |-> FALSE, index |-> 0,
     data |-> NoFile, write |-> "none"]

NoThreads == [t \in Threads |-> NoThread]

\* assignment of a State to the variables
Install(st) ==
    /\ initial_balance' = st.ib
    /\ current_balance' = st.cb
    /\ monthly_incomes' = st.mi
    /\ monthly_expenses' = st.me
    /\ one_time_transactions' = st.ot
    /\ data_file' = st.file

\* whether the constructor reaches save_data: load_data raised (line 71) or
\* no recurring transaction was loaded (line 38)
InitSaves(balance, file) ==
    \/ file.kind = "malformed"
    \/ init(balance, file, "torn").file = Malformed

\* the outcome of the write a call made, "none" when it made none
WritesOf(saves) == IF saves THEN WriteOutcomes ELSE {"none"}

Init ==
    \E b \in CtorBalances, f \in InitialFiles :
      \E w \in WritesOf(InitSaves(b, f)) :
        LET st == init(b, f, w)
        IN  /\ initial_balance = st.ib
            /\ current_balance = st.cb
            /\ monthly_incomes = st.mi
            /\ monthly_expenses = st.me
            /\ one_time_transactions = st.ot
            /\ data_file = st.file
            /\ op = [NoArgs EXCEPT !.name = "__init__", !.balance = b,
                                   !.write = w, !.file = f]
            /\ raised = FALSE
            /\ forecast_data = <<>>
            /\ threads = NoThreads

----------------------------------------------------------------------------
(* The add operations and update_initial_balance. *)

\* an amount of 0 is accepted
AmountRejected_ZeroAccepted(amount) == amount < 0

\* the check "amount <= 0" of lines 94, 109, 126, 142
AmountRejected(amount) == amount <= 0

\* the check "not 1 <= day <= 31" of lines 124, 140
DayRejected(day) == ~(1 <= day /\ day <= 31)

\* a balance of 0 is rejected too
BalanceRejected_ZeroRejected(balance) == balance <= 0

\* the check "balance < 0" of line 155
BalanceRejected(balance) == balance < 0

\* date or datetime.now()
DateOrNow(date, now) == IF date = NoDate THEN now ELSE date

\* name or default
NameOr(name, default) == IF name = NoName THEN default ELSE name

\* the stored amount of add_income (line 99) and of add_expense (line 114)
IncomeAmount(amount) == amount

ExpenseAmount(amount) == -amount

\* the result of a method call: the state after it and whether it raised
Raised(st) == [st |-> st, raised |-> TRUE]

\* a call that appended or assigned and then returned from save_data
Returned(st, ib, cb, mi, me, ot, w) ==
    [st |-> State(ib, cb, mi, me, ot,
                  save_data(ib, cb, mi, me, ot, st.file, w)),
     raised |-> FALSE]

\* tracker.add_income(amount, date, name) on the state st
call_add_income(st, amount, date, name, now, w) ==
    IF AmountRejected(amount) THEN Raised(st)
    ELSE Returned(st, st.ib, st.cb, st.mi, st.me,
                  Append(st.ot,
                         OneTimeTransaction(DateOrNow(date, now),
                             IncomeAmount(amount), "income",
                             NameOr(name, "One-time Income"), "green")), w)

\* tracker.add_expense(amount, date, name) on the state st
call_add_expense(st, amount, date, name, now, w) ==
    IF AmountRejected(amount) THEN Raised(st)
    ELSE Returned(st, st.ib, st.cb, st.mi, st.me,
                  Append(st.ot,
                         OneTimeTransaction(DateOrNow(date, now),
                             ExpenseAmount(amount), "expense",
                             NameOr(name, "One-time Expense"), "red")), w)

\* tracker.add_monthly_income(day, amount, name) on the state st
call_add_monthly_income(st, day, amount, name, w) ==
    IF DayRejected(day) \/ AmountRejected(amount) THEN Raised(st)
    ELSE Returned(st, st.ib, st.cb,
                  Append(st.mi, Transaction(day, amount, name, "green")),
                  st.me, st.ot, w)

\* tracker.add_monthly_expense(day, amount, name) on the state st
call_add_monthly_expense(st, day, amount, name, w) ==
    IF DayRejected(day) \/ AmountRejected(amount) THEN Raised(st)
    ELSE Returned(st, st.ib, st.cb, st.mi,
                  Append(st.me, Transaction(day, amount, name, "red")),
                  st.ot, w)

\* the balance update clears the one-time transactions
call_update_initial_balance_Resets(st, balance, w) ==
    IF BalanceRejected(balance) THEN Raised(st)
    ELSE Returned(st, balance, balance, st.mi, st.me, <<>>, w)

\* tracker.update_initial_balance(balance) on the state st
call_update_initial_balance(st, balance, w) ==
    IF BalanceRejected(balance) THEN Raised(st)
    ELSE Returned(st, balance, balance, st.mi, st.me, st.ot, w)

\* the collections of a result explored here hold at most MaxTx transactions
WithinBound(r) ==
    IF r.raised THEN TRUE
    ELSE Len(r.st.mi) + Len(r.st.me) + Len(r.st.ot) <= MaxTx

\* a method called on its own: its result becomes the state
Finish(call, r) ==
    /\ op' = call
    /\ raised' = r.raised
    /\ forecast_data' = <<>>
    /\ Install(r.st)
    /\ UNCHANGED threads

add_income(amount, date, name, now, w) ==
    LET call == [NoArgs EXCEPT !.name = "add_income", !.amount = amount,
                               !.date = date, !.tname = name,
                               !.now = IF date = NoDate THEN now ELSE NoDate,
                               !.write = w]
        r == call_add_income(Current, amount, date, name, now, w)
    IN  WithinBound(r) /\ Finish(call, r)

add_expense(amount, date, name, now, w) ==
    LET call == [NoArgs EXCEPT !.name = "add_expense", !.amount = amount,
                               !.date = date, !.tname = name,
                               !.now = IF date = NoDate THEN now ELSE NoDate,
                               !.write = w]
        r == call_add_expense(Current, amount, date, name, now, w)
    IN  WithinBound(r) /\ Finish(call, r)

add_monthly_income(day, amount, name, w) ==
    LET call == [NoArgs EXCEPT !.name = "add_monthly_income", !.day = day,
                               !.amount = amount, !.tname = name, !.write = w]
        r == call_add_monthly_income(Current, day, amount, name, w)
    IN  WithinBound(r) /\ Finish(call, r)

add_monthly_expense(day, amount, name, w) ==
    LET call == [NoArgs EXCEPT !.name = "add_monthly_expense", !.day = day,
                               !.amount = amount, !.tname = name, !.write = w]
        r == call_add_monthly_expense(Current, day, amount, name, w)
    IN  WithinBound(r) /\ Finish(call, r)

update_initial_balance(balance, w) ==
    LET call == [NoArgs EXCEPT !.name = "update_initial_balance",
                               !.balance = balance, !.write = w]
    IN  Finish(call, call_update_initial_balance(Current, balance, w))

----------------------------------------------------------------------------
(* generate_daily_forecast. *)

RECURSIVE InsertByDate_Unstable(_, _)
\* the sort puts a transaction before the earlier ones of its date
InsertByDate_Unstable(s, t) ==
    IF s = <<>> THEN <<t>>
    ELSE IF ~DateLess(Head(s).date, t.date) THEN <<t>> \o s
    ELSE <<Head(s)>> \o InsertByDate_Unstable(Tail(s), t)

RECURSIVE InsertByDate(_, _)
\* t inserted into the sorted list s after every element whose date is not
\* later than its own
InsertByDate(s, t) ==
    IF s = <<>> THEN <<t>>
    ELSE IF DateLess(t.date, Head(s).date) THEN <<t>> \o s
    ELSE <<Head(s)>> \o InsertByDate(Tail(s), t)

RECURSIVE SortedFrom(_, _)
\* the elements of rest inserted one by one, in their order, into done
SortedFrom(done, rest) ==
    IF rest = <<>> THEN done
    ELSE SortedFrom(InsertByDate(done, Head(rest)), Tail(rest))

\* sorted(self.one_time_transactions, key=lambda x: x.date.date()): a stable
\* sort by calendar date
sorted(ot) == SortedFrom(<<>>, ot)

\* a day past the end of the month is moved to the last day of the month
DayMatches_Clamped(t, current_date) ==
    \/ t.day = current_date.day
    \/ /\ t.day > DaysInMonth(current_date.year, current_date.month)
       /\ current_date.day = DaysInMonth(current_date.year, current_date.month)

\* income.day == current_date.day (lines 179, 188, 191, 200)
DayMatches(t, current_date) == t.day = current_date.day

\* only the day of the month of a one-time transaction is compared
DateMatches_DayOnly(t, current_date) == t.date.day = current_date.day

\* t.date.date() == current_date.date() (line 212)
DateMatches(t, current_date) == t.date = current_date

\* the dictionaries of lines 181-186, 193-198 and 205-210
IncomeEntry(t) ==
    [type |-> "income", name |-> t.name, amount |-> t.amount, color |-> t.color]

\* the sign of a recurring expense is lost
ExpenseEntry_Unsigned(t) ==
    [type |-> "expense", name |-> t.name, amount |-> t.amount,
     color |-> t.color]

ExpenseEntry(t) ==
    [type |-> "expense", name |-> t.name, amount |-> -t.amount,
     color |-> t.color]

OneTimeEntry(t) ==
    [type |-> t.type, name |-> t.name, amount |-> t.amount, color |-> t.color]

RECURSIVE IncomesOn(_, _)
\* the list comprehension of lines 180-189
IncomesOn(mi, current_date) ==
    IF mi = <<>> THEN <<>>
    ELSE (IF DayMatches(Head(mi), current_date)
          THEN <<IncomeEntry(Head(mi))>> ELSE <<>>)
         \o IncomesOn(Tail(mi), current_date)

RECURSIVE ExpensesOn(_, _)
\* the list comprehension of lines 192-201
ExpensesOn(me, current_date) ==
    IF me = <<>> THEN <<>>
    ELSE (IF DayMatches(Head(me), current_date)
          THEN <<ExpenseEntry(Head(me))>> ELSE <<>>)
         \o ExpensesOn(Tail(me), current_date)

RECURSIVE OneTimesOn(_, _)
\* the list comprehension of lines 204-213
OneTimesOn(sorted_transactions, current_date) ==
    IF sorted_transactions = <<>> THEN <<>>
    ELSE (IF DateMatches(Head(sorted_transactions), current_date)
          THEN <<OneTimeEntry(Head(sorted_transactions))>> ELSE <<>>)
         \o OneTimesOn(Tail(sorted_transactions), current_date)

\* day_transactions of one iteration (lines 176-213)
DayTransactions(mi, me, sorted_transactions, current_date) ==
    LET incomes  == IF \E i \in 1..Len(mi) : DayMatches(mi[i], current_date)
                    THEN IncomesOn(mi, current_date) ELSE <<>>
        expenses == IF \E i \in 1..Len(me) : DayMatches(me[i], current_date)
                    THEN ExpensesOn(me, current_date) ELSE <<>>
        onetime  == OneTimesOn(sorted_transactions, current_date)
    IN  incomes \o expenses \o onetime

RECURSIVE UpdateBalance(_, _)
\* the loop of lines 216-217
UpdateBalance(balance, day_transactions) ==
    IF day_transactions = <<>> THEN balance
    ELSE UpdateBalance(balance + Head(day_transactions).amount,
                       Tail(day_transactions))

\* the projection goes on at a balance of exactly 0
Depleted_Strict(balance) == balance < 0

\* the projection never stops before the horizon
Depleted_Never(balance) == FALSE

\* the test of line 225
Depleted(balance) == balance <= 0

RECURSIVE ForecastLoop(_, _, _, _, _, _, _, _)
\* the loop of lines 174-226 from iteration day_offset on; sorted_ot is
\* sorted_transactions, acc is forecast_data so far
ForecastLoop(day_offset, max_days, start_date, balance, mi, me, sorted_ot, acc) ==
    IF day_offset >= max_days THEN acc
    ELSE LET current_date == AddDays(start_date, day_offset)
             day_transactions ==
                 DayTransactions(mi, me, sorted_ot, current_date)
             new_balance == UpdateBalance(balance, day_transactions)
             out == Append(acc, [date |-> current_date,
                                 transactions |-> day_transactions,
                                 balance |-> new_balance])
         IN  IF Depleted(new_balance) THEN out
             ELSE ForecastLoop(day_offset + 1, max_days, start_date,
                               new_balance, mi, me, sorted_ot, out)

\* the running balance the loop starts from (line 166)
SeedBalance(st) == st.ib

\* forecast_data of tracker.generate_daily_forecast(max_days) called on the
\* state st on the day start_date
Forecast(st, max_days, start_date) ==
    ForecastLoop(0, max_days, start_date, SeedBalance(st), st.mi, st.me,
                 sorted(st.ot), <<>>)

\* the list is sorted in place
AfterSorted_InPlace(ot) == sorted(ot)

\* self.one_time_transactions after sorted(self.one_time_transactions, ...):
\* sorted returns a new list
AfterSorted(ot) == ot

generate_daily_forecast(max_days, start_date) ==
    /\ op' = [NoArgs EXCEPT !.name = "generate_daily_forecast",
                            !.max_days = max_days, !.start_date = start_date]
    /\ raised' = FALSE
    /\ forecast_data' = Forecast(Current, max_days, start_date)
    /\ one_time_transactions' = AfterSorted(one_time_transactions)
    /\ UNCHANGED <<initial_balance, current_balance, monthly_incomes,
                   monthly_expenses, data_file, threads>>

----------------------------------------------------------------------------
(* The program. *)

\* the process is started again: a new tracker is constructed from the file
restart(balance, w) ==
    /\ Install(init(balance, data_file, w))
    /\ op' = [NoArgs EXCEPT !.name = "__init__", !.balance = balance,
                            !.write = w, !.file = data_file]
    /\ raised' = FALSE
    /\ forecast_data' = <<>>
    /\ UNCHANGED threads

Next ==
    \/ \E i \in OneTimeInputs, now \in NowInputs :
          \E w \in WritesOf(~AmountRejected(i[1])) :
              add_income(i[1], i[2], i[3], now, w)
    \/ \E i \in OneTimeInputs, now \in NowInputs :
          \E w \in WritesOf(~AmountRejected(i[1])) :
              add_expense(i[1], i[2], i[3], now, w)
    \/ \E i \in MonthlyInputs :
          \E w \in WritesOf(~DayRejected(i[1]) /\ ~AmountRejected(i[2])) :
              add_monthly_income(i[1], i[2], "x", w)
    \/ \E i \in MonthlyInputs :
          \E w \in WritesOf(~DayRejected(i[1]) /\ ~AmountRejected(i[2])) :
              add_monthly_expense(i[1], i[2], "x", w)
    \/ \E b \in BalanceInputs :
          \E w \in WritesOf(~BalanceRejected(b)) : update_initial_balance(b, w)
    \/ \E s \in StartDates : generate_daily_forecast(MaxDays, s)
    \/ \E b \in CtorBalances :
          \E w \in WritesOf(InitSaves(b, data_file)) : restart(b, w)

Spec == Init /\ [][Next]_vars

----------------------------------------------------------------------------
(* _create_forecast_dataframe: the table the forecast call returns. *)

\* entry['date'].strftime("%Y-%m-%d"): year, month and day of the text
strftime(d) == <<d.year, d.month, d.day>>

abs(x) == IF x < 0 THEN -x ELSE x

\* the column Income of a transaction's row (line 239)
IncomeColumn(amount) == IF amount > 0 THEN abs(amount) ELSE 0

\* the expense is written with its sign
ExpenseColumn_Signed(amount) == IF amount < 0 THEN amount ELSE 0

\* the column Expense of a transaction's row (line 240)
ExpenseColumn(amount) == IF amount < 0 THEN abs(amount) ELSE 0

\* the row of one transaction of an entry (lines 236-242)
TransactionRow(entry, transaction) ==
    [Date |-> strftime(entry.date), Transaction |-> transaction.name,
     Income |-> IncomeColumn(transaction.amount),
     Expense |-> ExpenseColumn(transaction.amount),
     Balance |-> entry.balance]

\* the row of an entry without transactions (lines 246-252)
EmptyRow(entry) ==
    [Date |-> strftime(entry.date), Transaction |-> "-", Income |-> 0,
     Expense |-> 0, Balance |-> entry.balance]

\* the rows one entry adds (lines 234-252)
RowsOf(entry) ==
    IF entry.transactions # <<>>
    THEN [k \in 1..Len(entry.transactions) |->
             TransactionRow(entry, entry.transactions[k])]
    ELSE <<EmptyRow(entry)>>

RECURSIVE create_forecast_dataframe(_)
\* the rows of the DataFrame built from the list of entries
create_forecast_dataframe(data) ==
    IF data = <<>> THEN <<>>
    ELSE RowsOf(Head(data)) \o create_forecast_dataframe(Tail(data))

\* the table returned by the last generate_daily_forecast (line 228)
forecast_df == create_forecast_dataframe(forecast_data)

----------------------------------------------------------------------------
(* The callback update_forecast of create_app, on the tracker of line 303. *)

Buttons ==
    {"No clicks yet", "update-balance-button", "add-monthly-income-button",
     "add-monthly-expense-button", "add-transaction-button"}

\* the State values the callback reads for its button; missing holds the
\* names of those that are None, whose value here is the zero of their type
NoForm ==
    [balance |-> 0, day |-> 0, amount |-> 0, name |-> NoName, date |-> <<>>,
     ttype |-> "", missing |-> {}]

\* value is not None
Given(form, field) == field \notin form.missing

\* a value counts as soon as it is not None
Truthy_GivenOnly(form, field, value, zero) == Given(form, field)

\* the truth value all([...]) takes of a form value: None, 0 and "" are false
Truthy(form, field, value, zero) == Given(form, field) /\ value # zero

\* all([day, amount, name]) of the two recurring forms
AllMonthly(form) ==
    /\ Truthy(form, "day", form.day, 0)
    /\ Truthy(form, "amount", form.amount, 0)
    /\ Truthy(form, "name", form.name, NoName)

\* all([transaction_date, transaction_amount, transaction_name])
AllTransaction(form) ==
    /\ Truthy(form, "date", form.date, <<>>)
    /\ Truthy(form, "amount", form.amount, 0)
    /\ Truthy(form, "name", form.name, NoName)

\* datetime.strptime(transaction_date, '%Y-%m-%d') of the date picker's text
strptime(s) == Date(s[1], s[2], s[3])

\* the tracker method the if/elif chain of lines 556-571 calls
Invoked(button, form) ==
    IF button = "update-balance-button" /\ Given(form, "balance")
    THEN "update_initial_balance"
    ELSE IF button = "add-monthly-income-button" /\ AllMonthly(form)
    THEN "add_monthly_income"
    ELSE IF button = "add-monthly-expense-button" /\ AllMonthly(form)
    THEN "add_monthly_expense"
    ELSE IF button = "add-transaction-button" /\ AllTransaction(form)
    THEN IF Given(form, "ttype") /\ form.ttype = "income" THEN "add_income"
         ELSE "add_expense"
    ELSE "none"

\* the try block of lines 555-576: the result of the call it makes; a
\* ValueError is caught and printed
TryBlock(st, method, form, now, w) ==
    IF method = "update_initial_balance"
    THEN call_update_initial_balance(st, form.balance, w)
    ELSE IF method = "add_monthly_income"
    THEN call_add_monthly_income(st, form.day, form.amount, form.name, w)
    ELSE IF method = "add_monthly_expense"
    THEN call_add_monthly_expense(st, form.day, form.amount, form.name, w)
    ELSE IF method = "add_income"
    THEN call_add_income(st, form.amount, strptime(form.date), form.name, now, w)
    ELSE IF method = "add_expense"
    THEN call_add_expense(st, form.amount, strptime(form.date), form.name, now, w)
    ELSE [st |-> st, raised |-> FALSE]

\* the forecast is computed before the try block
ForecastState_Before(before, after) == before

\* the state tracker.generate_daily_forecast() of line 579 reads: the try
\* block has ended
ForecastState(before, after) == after

\* the horizon of the callback's forecast, generate_daily_forecast() with
\* its default max_days cut down to the projected days explored here
CallbackDays == MaxDays

\* whether the callback reaches save_data
CallbackSaves(button, form, now) ==
    /\ Invoked(button, form) # "none"
    /\ ~TryBlock(Current, Invoked(button, form), form, now, "unchanged").raised

update_forecast(button, form, now, w) ==
    LET method == Invoked(button, form)
        r == TryBlock(Current, method, form, now, w)
    IN  /\ WithinBound(r)
        /\ op' = [NoArgs EXCEPT !.name = "update_forecast",
                                !.button = button, !.missing = form.missing,
                                !.balance = form.balance, !.day = form.day,
                                !.amount = form.amount, !.tname = form.name,
                                !.date = IF form.date = <<>> THEN NoDate
                                         ELSE strptime(form.date),
                                !.ttype = form.ttype, !.invoked = method,
                                !.caught = r.raised, !.write = w,
                                !.max_days = CallbackDays,
                                !.start_date = now]
        /\ raised' = FALSE
        /\ Install(r.st)
        /\ forecast_data' =
               Forecast(ForecastState(Current, r.st), CallbackDays, now)
        /\ UNCHANGED threads

\* what the form of the balance button holds
BalanceForms ==
    {[NoForm EXCEPT !.missing = {"balance"}]}
        \cup {[NoForm EXCEPT !.balance = b] : b \in BalanceInputs}

\* day, amount, name and the values that are None of a recurring form
MonthlyFormInputs ==
    {<<0, 500, "x", {"day"}>>, <<22, 0, "x", {}>>, <<22, 500, "", {}>>,
     <<32, 500, "x", {}>>, <<22, -5, "x", {}>>, <<22, 500, "x", {}>>}

MonthlyForms ==
    {[NoForm EXCEPT !.day = i[1], !.amount = i[2], !.name = i[3],
                    !.missing = i[4]] : i \in MonthlyFormInputs}

\* date, amount, name, type and the values that are None of the one-time form
TransactionFormInputs ==
    {<< <<>>, 500, "x", "income", {"date"}>>,
     << <<2026, 1, 22>>, 0, "x", "income", {}>>,
     << <<2026, 1, 22>>, 500, "x", "income", {"name"}>>,
     << <<2026, 1, 22>>, -5, "x", "income", {}>>,
     << <<2026, 1, 22>>, 500, "x", "income", {}>>,
     << <<2026, 1, 21>>, 500, "x", "", {"ttype"}>>}

TransactionForms ==
    {[NoForm EXCEPT !.date = i[1], !.amount = i[2],
                    !.name = IF "name" \in i[5] THEN NoName ELSE i[3],
                    !.ttype = i[4], !.missing = i[5]]
        : i \in TransactionFormInputs}

FormsOf(button) ==
    IF button = "update-balance-button" THEN BalanceForms
    ELSE IF button = "add-transaction-button" THEN TransactionForms
    ELSE IF button = "No clicks yet" THEN {NoForm}
    ELSE MonthlyForms

\* the day on which the callbacks run
CallbackDates == {Date(2026, 1, 20)}

NextApp ==
    \E button \in Buttons, now \in CallbackDates :
      \E form \in FormsOf(button) :
        \E w \in WritesOf(CallbackSaves(button, form, now)) :
            update_forecast(button, form, now, w)

\* tracker = FinanceTracker(0) with the file as it is found
InitApp == Init /\ op.balance = 0

SpecApp == InitApp /\ [][NextApp]_vars

----------------------------------------------------------------------------
(* Add operations of callbacks that run at the same time: the server       *)
(* handles requests in threads, all on the tracker of line 303, and no     *)
(* lock is taken anywhere. A thread can be preempted between the append,   *)
(* the construction of the dictionary in save_data and write_text.         *)

\* method, day, amount, date and name of the adds the callbacks make
ConcurrentCalls ==
    {<<"add_monthly_income", 22, 500, NoDate, "x">>,
     <<"add_monthly_expense", 21, 500, NoDate, "y">>,
     <<"add_income", 0, 500, Date(2026, 1, 22), "x">>,
     <<"add_expense", 0, 500, Date(2026, 1, 21), "y">>,
     <<"add_monthly_income", 32, 500, NoDate, "x">>}

\* the method c called on the state st, up to its call of save_data
CallOf(st, c, now) ==
    IF c[1] = "add_monthly_income"
    THEN call_add_monthly_income(st, c[2], c[3], c[5], "unchanged")
    ELSE IF c[1] = "add_monthly_expense"
    THEN call_add_monthly_expense(st, c[2], c[3], c[5], "unchanged")
    ELSE IF c[1] = "add_income"
    THEN call_add_income(st, c[3], c[4], c[5], now, "unchanged")
    ELSE call_add_expense(st, c[3], c[4], c[5], now, "unchanged")

\* the collection a method appends to
CollectionOf(method, st) ==
    IF method = "add_monthly_income" THEN st.mi
    ELSE IF method = "add_monthly_expense" THEN st.me
    ELSE st.ot

\* thread t enters an add: the checks, and the append if they pass
thread_append(t, c, now) ==
    LET r == CallOf(Current, c, now)
    IN  /\ threads[t].pc = "idle"
        /\ threads' =
              [threads EXCEPT ![t] =
                  [NoThread EXCEPT
                      !.pc = IF r.raised THEN "done" ELSE "appended",
                      !.method = c[1], !.raised = r.raised,
                      !.index = IF r.raised THEN 0
                                ELSE Len(CollectionOf(c[1], r.st))]]
        /\ Install([r.st EXCEPT !.file = data_file])
        /\ op' = [NoArgs EXCEPT !.name = c[1], !.day = c[2], !.amount = c[3],
                                !.date = c[4], !.tname = c[5]]
        /\ raised' = r.raised
        /\ UNCHANGED forecast_data

\* thread t, inside save_data, builds the dictionary (lines 76-85)
thread_build(t) ==
    /\ threads[t].pc = "appended"
    /\ threads' =
          [threads EXCEPT ![t].pc = "built",
                          ![t].data =
                              Snapshot(initial_balance, current_balance,
                                       monthly_incomes, monthly_expenses,
                                       one_time_transactions)]
    /\ UNCHANGED <<tracker, data_file, op, raised, forecast_data>>

\* thread t writes its dictionary (line 87) and returns
thread_write(t, w) ==
    /\ threads[t].pc = "built"
    /\ data_file' = write_text(threads[t].data, data_file, w)
    /\ threads' = [threads EXCEPT ![t].pc = "done", ![t].write = w]
    /\ UNCHANGED <<tracker, op, raised, forecast_data>>

NextConcurrent ==
    \E t \in Threads :
        \/ \E c \in ConcurrentCalls, now \in NowInputs : thread_append(t, c, now)
        \/ thread_build(t)
        \/ \E w \in WriteOutcomes : thread_write(t, w)

SpecConcurrent == InitApp /\ [][NextConcurrent]_vars

----------------------------------------------------------------------------
(* The projection on its own: generate_daily_forecast applied, with every  *)
(* horizon and start date, to the trackers that a record on disk or a      *)
(* sequence of add operations can produce.                                 *)

IncomePool == { Transaction(29, 500, "pay", "green"),
                Transaction(1, 500, "x", "green") }

ExpensePool == { Transaction(31, 500, "x", "red"),
                 Transaction(22, 900, "Internet", "darkred") }

OneTimePool ==
    { OneTimeTransaction(Date(2026, 1, 31), IncomeAmount(500), "income",
                         "One-time Income", "green"),
      OneTimeTransaction(Date(2026, 1, 31), ExpenseAmount(500), "expense",
                         "One-time Expense", "red"),
      OneTimeTransaction(Date(2026, 1, 22), IncomeAmount(500), "income",
                         "x", "green"),
      OneTimeTransaction(Date(2026, 5, 1), ExpenseAmount(500), "expense",
                         "x", "red") }

SeqsUpTo(S, n) == UNION { [1..k -> S] : k \in 0..n }

InitForecast ==
    \E b \in {0, 500, 1000} :
    \E mi \in SeqsUpTo(IncomePool, MaxLen) :
    \E me \in SeqsUpTo(ExpensePool, MaxLen - Len(mi)) :
    \E ot \in SeqsUpTo(OneTimePool, MaxLen - Len(mi) - Len(me)) :
        /\ ~NoRecurring(State(b, b, mi, me, ot, NoFile))
        /\ initial_balance = b
        /\ current_balance = b
        /\ monthly_incomes = mi
        /\ monthly_expenses = me
        /\ one_time_transactions = ot
        /\ data_file = Snapshot(b, b, mi, me, ot)
        /\ op = [NoArgs EXCEPT !.name = "__init__", !.balance = b,
                               !.file = Snapshot(b, b, mi, me, ot)]
        /\ raised = FALSE
        /\ forecast_data = <<>>
        /\ threads = NoThreads

NextForecast ==
    \E n \in 0..MaxDays, s \in StartDates : generate_daily_forecast(n, s)

SpecForecast == InitForecast /\ [][NextForecast]_vars

----------------------------------------------------------------------------
(* Vocabulary of the properties. *)

IsForecast == op.name = "generate_daily_forecast"

Entries == 1..Len(forecast_data)

RECURSIVE SumTo(_, _)
\* f[1] + ... + f[n]
SumTo(f, n) == IF n = 0 THEN 0 ELSE f[n] + SumTo(f, n - 1)

\* the signed amounts the stored transactions contribute on the date d:
\* recurring incomes of that day of the month, minus recurring expenses of
\* that day of the month, plus the one-time amounts of that date
SignedOn(d) ==
    SumTo([i \in 1..Len(monthly_incomes) |->
              IF monthly_incomes[i].day = d.day
              THEN monthly_incomes[i].amount ELSE 0], Len(monthly_incomes))
    - SumTo([i \in 1..Len(monthly_expenses) |->
              IF monthly_expenses[i].day = d.day
              THEN monthly_expenses[i].amount ELSE 0], Len(monthly_expenses))
    + SumTo([i \in 1..Len(one_time_transactions) |->
              IF one_time_transactions[i].date = d
              THEN one_time_transactions[i].amount ELSE 0],
            Len(one_time_transactions))

\* the balance carried into entry i
BalanceBefore(i) ==
    IF i = 1 THEN initial_balance ELSE forecast_data[i - 1].balance

\* days from 0001-01-01 to the first day of the year y
DaysBeforeYear(y) ==
    365 * (y - 1) + ((y - 1) \div 4) - ((y - 1) \div 100) + ((y - 1) \div 400)

\* days of the year y before its month m
DaysBeforeMonth(y, m) ==
    SumTo([k \in 1..12 |-> IF k < m THEN DaysInMonth(y, k) ELSE 0], 12)

\* the proleptic Gregorian ordinal of a date
Ordinal(d) == DaysBeforeYear(d.year) + DaysBeforeMonth(d.year, d.month) + d.day

\* the date of the year y or of the year after it whose ordinal is n
DateOfOrdinal(n, y) ==
    CHOOSE d \in [year : {y, y + 1}, month : 1..12, day : 1..31] :
        /\ d.day <= DaysInMonth(d.year, d.month)
        /\ Ordinal(d) = n

----------------------------------------------------------------------------
(* C1: in every forecast, the balance of each entry is the balance of the  *)
(* entry before it (initial_balance for the first) plus the signed amounts *)
(* of the transactions that fall on the entry's date.                      *)
C1_RunningBalance ==
    IsForecast =>
        \A i \in Entries :
            forecast_data[i].balance
                = BalanceBefore(i) + SignedOn(forecast_data[i].date)

\* a forecast in which a later entry applies a recurring expense together
\* with one-time transactions and the projection goes on after it
C1_Witness ==
    /\ IsForecast
    /\ \E i \in Entries :
          /\ 1 < i /\ i < Len(forecast_data)
          /\ Len(forecast_data[i].transactions) >= 3
          /\ \E j, k \in 1..Len(forecast_data[i].transactions) :
                /\ forecast_data[i].transactions[j].amount < 0
                /\ forecast_data[i].transactions[k].amount > 0
          /\ forecast_data[i].balance # BalanceBefore(i)

----------------------------------------------------------------------------
(* C2, the scenario: initial_balance = 0, no recurring transaction on a     *)
(* projected day, a single one-time income of +500 on the third day and a   *)
(* horizon of five days.                                                     *)

ScenarioC2 ==
    /\ IsForecast
    /\ op.max_days = 5
    /\ initial_balance = 0
    /\ Len(one_time_transactions) = 1
    /\ one_time_transactions[1].amount = 500
    /\ one_time_transactions[1].type = "income"
    /\ Ordinal(one_time_transactions[1].date) = Ordinal(op.start_date) + 2
    /\ \A k \in 0..4 :
          LET d == DateOfOrdinal(Ordinal(op.start_date) + k, op.start_date.year)
          IN  /\ \A i \in 1..Len(monthly_incomes) :
                    monthly_incomes[i].day # d.day
              /\ \A i \in 1..Len(monthly_expenses) :
                    monthly_expenses[i].day # d.day

\* C2 as claimed: the scenario yields five entries with the balances
\* 0, 0, 500, 500, 500
C2_FiveEntries ==
    ScenarioC2 =>
        /\ Len(forecast_data) = 5
        /\ \A i \in Entries :
              /\ Ordinal(forecast_data[i].date) = Ordinal(op.start_date) + i - 1
              /\ forecast_data[i].balance = (IF i < 3 THEN 0 ELSE 500)

\* C2 as amended: the scenario yields a single entry, for the start date,
\* with balance 0; the projection stops there because the balance is not
\* positive, and the income of the third day is never applied
C2_StopsOnFirstDay ==
    ScenarioC2 =>
        /\ Len(forecast_data) = 1
        /\ forecast_data[1].date = op.start_date
        /\ forecast_data[1].transactions = <<>>
        /\ forecast_data[1].balance = 0

C2_Witness ==
    /\ ScenarioC2
    /\ forecast_data # <<>>

----------------------------------------------------------------------------
(* C3: every entry but the last has a positive balance; a forecast shorter *)
(* than the horizon ends with an entry whose balance is <= 0; a forecast   *)
(* whose balances are all positive has exactly max_days entries.           *)
C3_EarlyStop ==
    IsForecast =>
        /\ \A i \in Entries : i < Len(forecast_data) => forecast_data[i].balance > 0
        /\ Len(forecast_data) < op.max_days =>
              /\ forecast_data # <<>>
              /\ forecast_data[Len(forecast_data)].balance <= 0
        /\ (\A i \in Entries : forecast_data[i].balance > 0) =>
              Len(forecast_data) = op.max_days

\* the spec's scenario: the balance stays positive for some days, reaches
\* exactly 0 on a recurring expense, and the projection ends there although
\* days of the horizon remain
C3_Witness ==
    /\ IsForecast
    /\ Len(forecast_data) >= 2
    /\ Len(forecast_data) < op.max_days
    /\ forecast_data[Len(forecast_data)].balance = 0
    /\ one_time_transactions = <<>>
    /\ \E j \in 1..Len(forecast_data[Len(forecast_data)].transactions) :
          forecast_data[Len(forecast_data)].transactions[j].type = "expense"

----------------------------------------------------------------------------
(* C4: with max_days >= 1 a forecast has between 1 and max_days entries,   *)
(* entry k (from 0) is for the k-th day after the start date, so dates     *)
(* increase strictly and consecutive entries are one day apart.            *)
C4_ConsecutiveDates ==
    (IsForecast /\ op.max_days >= 1) =>
        /\ 1 <= Len(forecast_data)
        /\ Len(forecast_data) <= op.max_days
        /\ forecast_data[1].date = op.start_date
        /\ \A i \in Entries :
              /\ IsoValid(isoformat(forecast_data[i].date))
              /\ Ordinal(forecast_data[i].date) = Ordinal(op.start_date) + i - 1
              /\ i > 1 => DateLess(forecast_data[i - 1].date, forecast_data[i].date)

\* a forecast that runs over the end of a month and has days with and
\* days without transactions
C4_Witness ==
    /\ IsForecast
    /\ Len(forecast_data) >= 4
    /\ forecast_data[1].date.month # forecast_data[Len(forecast_data)].date.month
    /\ \E i, j \in Entries :
          /\ forecast_data[i].transactions = <<>>
          /\ forecast_data[j].transactions # <<>>

----------------------------------------------------------------------------
(* Vocabulary of the properties about the operations and the record. *)

OneTimeAdds == {"add_income", "add_expense"}

MonthlyAdds == {"add_monthly_income", "add_monthly_expense"}

\* the call recorded in c is an add operation with an argument that the
\* spec declares invalid
InvalidAdd(c) ==
    \/ c.name \in OneTimeAdds \cup MonthlyAdds /\ c.amount <= 0
    \/ c.name \in MonthlyAdds /\ (c.day < 1 \/ c.day > 31)

\* the record f holds exactly the state (ib, cb, mi, me, ot)
RecordHolds(f, ib, cb, mi, me, ot) ==
    /\ f.kind = "json"
    /\ f.keys = AllKeys
    /\ f.initial_balance = ib
    /\ f.current_balance = cb
    /\ Len(f.monthly_incomes) = Len(mi)
    /\ \A i \in 1..Len(mi) :
          LET d == f.monthly_incomes[i]
          IN  d.keys_ok /\ <<d.day, d.amount, d.name, d.color>>
                  = <<mi[i].day, mi[i].amount, mi[i].name, mi[i].color>>
    /\ Len(f.monthly_expenses) = Len(me)
    /\ \A i \in 1..Len(me) :
          LET d == f.monthly_expenses[i]
          IN  d.keys_ok /\ <<d.day, d.amount, d.name, d.color>>
                  = <<me[i].day, me[i].amount, me[i].name, me[i].color>>
    /\ Len(f.one_time_transactions) = Len(ot)
    /\ \A i \in 1..Len(ot) :
          LET d == f.one_time_transactions[i]
          IN  d.keys_ok
              /\ d.date = <<ot[i].date.year, ot[i].date.month, ot[i].date.day>>
              /\ <<d.amount, d.type, d.name, d.color>>
                  = <<ot[i].amount, ot[i].type, ot[i].name, ot[i].color>>

\* the record on disk holds the state of the tracker
WrittenThrough ==
    RecordHolds(data_file, initial_balance, current_balance, monthly_incomes,
                monthly_expenses, one_time_transactions)

\* s is t with exactly one element appended
AppendsOne(s, t) == Len(t) = Len(s) + 1 /\ SubSeq(t, 1, Len(s)) = s

----------------------------------------------------------------------------
(* C5: an add operation called with amount <= 0, or a monthly add called   *)
(* with a day outside 1..31, raises and leaves the collections, both       *)
(* balances and the record on disk as they were.                           *)
C5_RejectedAddChangesNothing ==
    [][InvalidAdd(op') => (raised' /\ UNCHANGED <<tracker, data_file>>)]_vars

\* a monthly add rejected for its day alone, on a tracker that holds
\* transactions and has a record on disk
C5_Witness ==
    /\ op.name \in MonthlyAdds
    /\ op.day = 32 /\ op.amount > 0
    /\ raised
    /\ data_file.kind = "json"
    /\ monthly_incomes # <<>>

----------------------------------------------------------------------------
(* C6: a successful add appends one transaction, built from its arguments, *)
(* to the end of its own collection and changes neither the other          *)
(* collections nor the balances.                                            *)

\* the transaction the call c stores, in the collection it belongs to
AddsItsTransaction(c) ==
    /\ UNCHANGED <<initial_balance, current_balance>>
    /\ c.name = "add_monthly_income" =>
          /\ AppendsOne(monthly_incomes, monthly_incomes')
          /\ LET t == monthly_incomes'[Len(monthly_incomes')]
             IN  t.day = c.day /\ t.amount = c.amount /\ t.name = c.tname
          /\ UNCHANGED <<monthly_expenses, one_time_transactions>>
    /\ c.name = "add_monthly_expense" =>
          /\ AppendsOne(monthly_expenses, monthly_expenses')
          /\ LET t == monthly_expenses'[Len(monthly_expenses')]
             IN  t.day = c.day /\ t.amount = c.amount /\ t.name = c.tname
          /\ UNCHANGED <<monthly_incomes, one_time_transactions>>
    /\ c.name \in OneTimeAdds =>
          /\ AppendsOne(one_time_transactions, one_time_transactions')
          /\ LET t == one_time_transactions'[Len(one_time_transactions')]
             IN  /\ t.date = (IF c.date = NoDate THEN c.now ELSE c.date)
                 /\ t.type = (IF c.name = "add_income" THEN "income"
                              ELSE "expense")
                 /\ t.amount = (IF c.name = "add_income" THEN c.amount
                                ELSE 0 - c.amount)
          /\ UNCHANGED <<monthly_incomes, monthly_expenses>>

SuccessfulAdd(c, r) == c.name \in OneTimeAdds \cup MonthlyAdds /\ ~r

\* C6 as claimed: ... and when the add returns, the record on disk holds
\* the state of the tracker
C6_AlwaysWrittenThrough ==
    [][SuccessfulAdd(op', raised') =>
          (AddsItsTransaction(op') /\ WrittenThrough')]_vars

\* C6 as amended: ... and when the add returns, the record on disk holds
\* the state of the tracker if the write succeeded; when the write fails the
\* add returns all the same and the record is the old one or is unreadable
C6_WrittenThroughUnlessWriteFails ==
    [][SuccessfulAdd(op', raised') =>
          /\ AddsItsTransaction(op')
          /\ op'.write = "ok" => WrittenThrough'
          /\ op'.write # "ok" =>
                (data_file' = data_file \/ data_file'.kind = "malformed")]_vars

\* an add_expense without a date was appended after another one-time
\* transaction and written to the record
C6_Witness ==
    /\ op.name = "add_expense" /\ ~raised
    /\ op.date = NoDate
    /\ op.write = "ok"
    /\ Len(one_time_transactions) >= 2
    /\ one_time_transactions[Len(one_time_transactions)].amount < 0
    /\ WrittenThrough

----------------------------------------------------------------------------
(* C7: construction when the record cannot be loaded, is absent, or holds  *)
(* no recurring transaction.                                               *)

IsInit == op.name = "__init__"

\* the values of a key of the file f, none when the key is missing
ListOf(f, key, value) == IF key \in f.keys THEN value ELSE <<>>

\* loading the file f fails: it is unreadable or malformed as a whole, or
\* one of its transactions misses a key or carries an impossible date
FailsToLoad(f) ==
    \/ f.kind = "malformed"
    \/ /\ f.kind = "json"
       /\ \/ \E i \in 1..Len(ListOf(f, "monthly_incomes", f.monthly_incomes)) :
                ~f.monthly_incomes[i].keys_ok
          \/ \E i \in 1..Len(ListOf(f, "monthly_expenses", f.monthly_expenses)) :
                ~f.monthly_expenses[i].keys_ok
          \/ \E i \in 1..Len(ListOf(f, "one_time_transactions",
                                    f.one_time_transactions)) :
                LET d == f.one_time_transactions[i]
                IN  \/ ~d.keys_ok
                    \/ d.date[2] \notin 1..12
                    \/ d.date[3] \notin 1..DaysInMonth(d.date[1], d.date[2])

\* the file f loads and holds no recurring transaction at all
LoadsWithoutRecurring(f) ==
    /\ f.kind = "json"
    /\ ~FailsToLoad(f)
    /\ ListOf(f, "monthly_incomes", f.monthly_incomes) = <<>>
    /\ ListOf(f, "monthly_expenses", f.monthly_expenses) = <<>>

DefaultsCase(f) ==
    FailsToLoad(f) \/ f.kind = "absent" \/ LoadsWithoutRecurring(f)

\* the recurring collections are the built-in default set
HasDefaultSet ==
    /\ Len(monthly_incomes) = 1
    /\ monthly_incomes[1].day = 21 /\ monthly_incomes[1].amount = 13000
    /\ Len(monthly_expenses) = 2
    /\ monthly_expenses[1].day = 14 /\ monthly_expenses[1].amount = 35000
    /\ monthly_expenses[2].day = 22 /\ monthly_expenses[2].amount = 900

\* C7 as claimed: in these cases construction completes, the recurring
\* collections are exactly the default set and that state is on disk
C7_DefaultsPersisted ==
    (IsInit /\ DefaultsCase(op.file)) =>
        (~raised /\ HasDefaultSet /\ WrittenThrough)

\* C7 as amended: in these cases construction completes and the recurring
\* collections are exactly the default set; the state is written at once,
\* and it is on disk if that write succeeded (a failed write is caught and
\* construction completes all the same)
C7_DefaultsInstalled ==
    (IsInit /\ DefaultsCase(op.file)) =>
        /\ ~raised
        /\ HasDefaultSet
        /\ op.write # "none"
        /\ op.write = "ok" => WrittenThrough

\* a record whose second one-time transaction cannot be loaded: the
\* recurring transactions it held are replaced by the default set, the
\* first one-time transaction is kept, and the result is on disk
C7_Witness ==
    /\ IsInit
    /\ op.file.kind = "json" /\ FailsToLoad(op.file)
    /\ op.file.monthly_incomes # <<>>
    /\ HasDefaultSet
    /\ one_time_transactions # <<>>
    /\ op.write = "ok" /\ WrittenThrough

----------------------------------------------------------------------------
(* C8: every stored recurring transaction has a day in 1..31 and a         *)
(* positive amount, every stored one-time transaction is an income with a  *)
(* positive amount or an expense with a negative amount.                   *)
C8_StoredTransactionsValid ==
    /\ \A i \in 1..Len(monthly_incomes) :
          monthly_incomes[i].day \in 1..31 /\ monthly_incomes[i].amount > 0
    /\ \A i \in 1..Len(monthly_expenses) :
          monthly_expenses[i].day \in 1..31 /\ monthly_expenses[i].amount > 0
    /\ \A i \in 1..Len(one_time_transactions) :
          \/ /\ one_time_transactions[i].type = "income"
             /\ one_time_transactions[i].amount > 0
          \/ /\ one_time_transactions[i].type = "expense"
             /\ one_time_transactions[i].amount < 0

----------------------------------------------------------------------------
(* Vocabulary of the properties about one projected date. *)

\* what a stored transaction looks like in an entry of the forecast
AsIncome(t) ==
    [type |-> "income", name |-> t.name, amount |-> t.amount, color |-> t.color]

AsExpense(t) ==
    [type |-> "expense", name |-> t.name, amount |-> 0 - t.amount,
     color |-> t.color]

AsOneTime(t) ==
    [type |-> t.type, name |-> t.name, amount |-> t.amount, color |-> t.color]

\* how many elements of the sequence s equal v
CountOf(s, v) == Cardinality({i \in 1..Len(s) : s[i] = v})

\* how many recurring incomes (expenses) of the day of the month dom look
\* like v in an entry
IncomesOfDay(dom, v) ==
    Cardinality({i \in 1..Len(monthly_incomes) :
                    monthly_incomes[i].day = dom /\ AsIncome(monthly_incomes[i]) = v})

ExpensesOfDay(dom, v) ==
    Cardinality({i \in 1..Len(monthly_expenses) :
                    monthly_expenses[i].day = dom
                    /\ AsExpense(monthly_expenses[i]) = v})

OneTimesOfDate(d, v) ==
    Cardinality({i \in 1..Len(one_time_transactions) :
                    one_time_transactions[i].date = d
                    /\ AsOneTime(one_time_transactions[i]) = v})

\* everything that can appear in an entry
EntryValues ==
    {AsIncome(monthly_incomes[i]) : i \in 1..Len(monthly_incomes)}
    \cup {AsExpense(monthly_expenses[i]) : i \in 1..Len(monthly_expenses)}
    \cup {AsOneTime(one_time_transactions[i]) : i \in 1..Len(one_time_transactions)}
    \cup UNION {{forecast_data[i].transactions[j] :
                    j \in 1..Len(forecast_data[i].transactions)} : i \in Entries}

----------------------------------------------------------------------------
(* C9: on every projected date each recurring transaction whose day is the *)
(* date's day of the month is applied exactly once, and no other recurring *)
(* transaction is applied: an entry holds each value as many times as      *)
(* there are recurring transactions of that day of the month and one-time  *)
(* transactions of that date with that value. In particular a recurring    *)
(* transaction whose day exceeds the length of the month is applied on no  *)
(* date of that month.                                                     *)
C9_DayOfMonthMatch ==
    IsForecast =>
        \A i \in Entries :
            LET e == forecast_data[i]
            IN  /\ \A v \in EntryValues :
                      CountOf(e.transactions, v)
                          = IncomesOfDay(e.date.day, v)
                            + ExpensesOfDay(e.date.day, v)
                            + OneTimesOfDate(e.date, v)
                /\ \A j \in 1..Len(monthly_incomes) :
                      monthly_incomes[j].day
                              > DaysInMonth(e.date.year, e.date.month)
                          => CountOf(e.transactions, AsIncome(monthly_incomes[j]))
                                 = OneTimesOfDate(e.date, AsIncome(monthly_incomes[j]))
                /\ \A j \in 1..Len(monthly_expenses) :
                      monthly_expenses[j].day
                              > DaysInMonth(e.date.year, e.date.month)
                          => CountOf(e.transactions, AsExpense(monthly_expenses[j]))
                                 = OneTimesOfDate(e.date, AsExpense(monthly_expenses[j]))

\* a projection over the end of April with a recurring expense of the 31st
\* stored: nothing is applied on April 30, and the recurring income of the
\* 1st is applied on May 1
C9_Witness ==
    /\ IsForecast
    /\ \E j \in 1..Len(monthly_expenses) : monthly_expenses[j].day = 31
    /\ \E i \in Entries :
          /\ forecast_data[i].date = Date(2026, 4, 30)
          /\ forecast_data[i].transactions = <<>>
    /\ \E i \in Entries :
          /\ forecast_data[i].date = Date(2026, 5, 1)
          /\ \E j \in 1..Len(monthly_incomes) :
                /\ monthly_incomes[j].day = 1
                /\ CountOf(forecast_data[i].transactions,
                           AsIncome(monthly_incomes[j])) = 1

----------------------------------------------------------------------------
(* C10: the transactions of an entry are the recurring incomes of that day *)
(* in the order of monthly_incomes, then the recurring expenses of that    *)
(* day in the order of monthly_expenses, then the one-time transactions of *)
(* that date in the order of one_time_transactions.                        *)

\* the elements of s, in their order, at the indices chosen by keep
RECURSIVE Chosen(_, _, _)
Chosen(s, keep, n) ==
    IF n = 0 THEN <<>>
    ELSE Chosen(s, keep, n - 1) \o (IF n \in keep THEN <<s[n]>> ELSE <<>>)

ExpectedOrder(d) ==
    LET inc == [i \in 1..Len(monthly_incomes) |-> AsIncome(monthly_incomes[i])]
        exp == [i \in 1..Len(monthly_expenses) |-> AsExpense(monthly_expenses[i])]
        one == [i \in 1..Len(one_time_transactions) |->
                   AsOneTime(one_time_transactions[i])]
    IN  Chosen(inc, {i \in 1..Len(inc) : monthly_incomes[i].day = d.day}, Len(inc))
        \o Chosen(exp, {i \in 1..Len(exp) : monthly_expenses[i].day = d.day},
                  Len(exp))
        \o Chosen(one, {i \in 1..Len(one) : one_time_transactions[i].date = d},
                  Len(one))

----------------------------------------------------------------------------
(* C14: computing a forecast changes nothing of the tracker. *)

\* the one-time transactions are stored out of date order
StoredOutOfOrder ==
    \E i, j \in 1..Len(one_time_transactions) :
        i < j /\ DateLess(one_time_transactions[j].date,
                          one_time_transactions[i].date)

\* C14: a step that computes a forecast leaves initial_balance,
\* current_balance, the three collections (the order of
\* one_time_transactions included) and the persisted record as they were.
C14_ForecastHasNoEffect ==
    [][IsForecast' => UNCHANGED <<tracker, data_file>>]_vars

\* a forecast with entries was computed over one-time transactions that are
\* stored out of date order, one of which appears in it
C14_Witness ==
    /\ IsForecast
    /\ StoredOutOfOrder
    /\ \E i \in Entries : \E k \in 1..Len(forecast_data[i].transactions) :
           forecast_data[i].transactions[k].name \in
               {"One-time Income", "One-time Expense"}
    /\ RecordHolds(data_file, initial_balance, current_balance,
                   monthly_incomes, monthly_expenses, one_time_transactions)

----------------------------------------------------------------------------
(* C15: the collections only grow at their ends. *)

\* s is the beginning of t
IsPrefix(s, t) == Len(s) <= Len(t) /\ SubSeq(t, 1, Len(s)) = s

\* the calls made on a constructed tracker
TrackerCalls ==
    OneTimeAdds \cup MonthlyAdds
        \cup {"update_initial_balance", "generate_daily_forecast"}

\* C15: every add, balance-update and forecast step leaves each of the three
\* collections a prefix of what it is afterwards: nothing stored is removed,
\* modified or reordered (and so, by transitivity, every earlier collection
\* is a prefix of every later one until the tracker is constructed anew).
C15_AppendOnly ==
    [][op'.name \in TrackerCalls =>
          /\ IsPrefix(monthly_incomes, monthly_incomes')
          /\ IsPrefix(monthly_expenses, monthly_expenses')
          /\ IsPrefix(one_time_transactions, one_time_transactions')]_vars

\* a one-time add returned on a tracker that already stored a one-time
\* transaction and recurring ones
C15_Witness ==
    /\ op.name \in OneTimeAdds
    /\ ~raised
    /\ Len(one_time_transactions) >= 2
    /\ Len(monthly_incomes) >= 1
    /\ Len(monthly_expenses) >= 1

----------------------------------------------------------------------------
(* C16: the rows of the returned table. *)

\* the number of rows the claim gives entry i
RowCount(i) ==
    IF Len(forecast_data[i].transactions) = 0 THEN 1
    ELSE Len(forecast_data[i].transactions)

\* the number of rows before those of entry i
RowsBefore(i) == SumTo([j \in 1..(i - 1) |-> RowCount(j)], i - 1)

\* the text of a date in the column Date
DateText(d) == <<d.year, d.month, d.day>>

\* C16: the table has, for each projected date in turn, one row "-" with
\* Income 0, Expense 0 and the carried-over balance when the date has no
\* transaction, and otherwise one row per transaction in applied order, each
\* with the end-of-day balance (the carried balance plus all amounts of the
\* date), Income = amount and Expense = 0 for a positive amount, Income = 0
\* and Expense = |amount| for a negative one; and it has no other rows.
C16_TableRows ==
    IsForecast =>
      /\ Len(forecast_df) = RowsBefore(Len(forecast_data) + 1)
      /\ \A i \in Entries :
           LET e == forecast_data[i]
               first == RowsBefore(i) + 1
           IN  IF e.transactions = <<>>
               THEN forecast_df[first] =
                        [Date |-> DateText(e.date), Transaction |-> "-",
                         Income |-> 0, Expense |-> 0,
                         Balance |-> BalanceBefore(i)]
               ELSE \A k \in 1..Len(e.transactions) :
                      LET row == forecast_df[first + k - 1]
                          t == e.transactions[k]
                      IN  /\ row.Date = DateText(e.date)
                          /\ row.Transaction = t.name
                          /\ row.Balance = BalanceBefore(i) + SignedOn(e.date)
                          /\ t.amount > 0 =>
                               row.Income = t.amount /\ row.Expense = 0
                          /\ t.amount < 0 =>
                               row.Income = 0 /\ row.Expense = 0 - t.amount

\* a forecast with a date without transactions followed by a date with an
\* income and an expense
C16_Witness ==
    /\ IsForecast
    /\ \E i, j \in Entries :
          /\ i < j
          /\ forecast_data[i].transactions = <<>>
          /\ Len(forecast_data[j].transactions) >= 2
          /\ \E k, l \in 1..Len(forecast_data[j].transactions) :
                /\ forecast_data[j].transactions[k].amount > 0
                /\ forecast_data[j].transactions[l].amount < 0

----------------------------------------------------------------------------
(* C19: a one-time transaction counts once, on its own date, if that date  *)
(* is projected, and not at all otherwise.                                 *)

\* the dates of the entries
EmittedDates == {forecast_data[i].date : i \in Entries}

\* the stored one-time transactions whose date is projected
OnEmittedDate ==
    {j \in 1..Len(one_time_transactions) :
        one_time_transactions[j].date \in EmittedDates}

\* what the recurring transactions contribute on the date d
RecurringOn(d) ==
    SumTo([i \in 1..Len(monthly_incomes) |->
              IF monthly_incomes[i].day = d.day
              THEN monthly_incomes[i].amount ELSE 0], Len(monthly_incomes))
    - SumTo([i \in 1..Len(monthly_expenses) |->
              IF monthly_expenses[i].day = d.day
              THEN monthly_expenses[i].amount ELSE 0], Len(monthly_expenses))

\* how often the value v occurs in the whole forecast
Occurrences(v) ==
    SumTo([i \in Entries |-> CountOf(forecast_data[i].transactions, v)],
          Len(forecast_data))

\* how often recurring transactions put the value v into the forecast
RecurringOccurrences(v) ==
    SumTo([i \in Entries |->
              IncomesOfDay(forecast_data[i].date.day, v)
              + ExpensesOfDay(forecast_data[i].date.day, v)],
          Len(forecast_data))

\* C19: the last balance of a forecast is the initial balance plus the
\* recurring amounts of the projected dates plus the amount of each one-time
\* transaction whose date is projected, counted once, and of no other
\* one-time transaction; the entry of that date holds the transaction, no
\* date is projected twice, and over the whole forecast every value occurs
\* as often as recurring transactions and one-time transactions of projected
\* dates account for.
C19_OneTimeAppliedOnce ==
    IsForecast =>
      /\ \A i, k \in Entries :
            forecast_data[i].date = forecast_data[k].date => i = k
      /\ Len(forecast_data) > 0 =>
            forecast_data[Len(forecast_data)].balance =
                initial_balance
                + SumTo([i \in Entries |-> RecurringOn(forecast_data[i].date)],
                        Len(forecast_data))
                + SumTo([j \in 1..Len(one_time_transactions) |->
                            IF j \in OnEmittedDate
                            THEN one_time_transactions[j].amount ELSE 0],
                        Len(one_time_transactions))
      /\ \A j \in OnEmittedDate : \A i \in Entries :
            forecast_data[i].date = one_time_transactions[j].date =>
                CountOf(forecast_data[i].transactions,
                        AsOneTime(one_time_transactions[j])) >= 1
      /\ \A v \in EntryValues :
            Occurrences(v) = RecurringOccurrences(v)
                + Cardinality({j \in OnEmittedDate :
                                  AsOneTime(one_time_transactions[j]) = v})

\* a forecast that stopped on its first day, with one one-time transaction
\* dated before the start and one dated inside the horizon after the stop
C19_Witness ==
    /\ IsForecast
    /\ Len(forecast_data) = 1
    /\ op.max_days >= 3
    /\ \E j \in 1..Len(one_time_transactions) :
          DateLess(one_time_transactions[j].date, op.start_date)
    /\ \E j \in 1..Len(one_time_transactions) :
          one_time_transactions[j].date = AddDays(op.start_date, 2)

----------------------------------------------------------------------------
(* C20: what save_data writes, a new tracker loads. *)

\* the record save_data writes for the current state when the write succeeds
SavedRecord ==
    save_data(initial_balance, current_balance, monthly_incomes,
              monthly_expenses, one_time_transactions, NoFile, "ok")

\* the values a constructor is given as its balance
AnyCtorBalance == CtorBalances \cup BalanceInputs

\* C20: in every state, a tracker constructed with any balance argument from
\* the record that save_data writes for that state has the same
\* initial_balance, the same current_balance and the same three collections,
\* element by element in the same order; the defaults are not installed and
\* the record is not rewritten.
C20_RoundTrip ==
    \A b \in AnyCtorBalance : \A w \in WriteOutcomes :
        LET st == init(b, SavedRecord, w)
        IN  /\ st.ib = initial_balance
            /\ st.cb = current_balance
            /\ st.mi = monthly_incomes
            /\ st.me = monthly_expenses
            /\ st.ot = one_time_transactions
            /\ st.file = SavedRecord

\* a one-time expense was added and saved on a tracker whose balances differ
\* from each other and whose collections are not the defaults, with two
\* one-time transactions of different dates stored
C20_Witness ==
    /\ op.name = "add_expense"
    /\ ~raised
    /\ op.write = "ok"
    /\ data_file = SavedRecord
    /\ initial_balance # current_balance
    /\ monthly_incomes # DefaultIncomes
    /\ \E i, j \in 1..Len(one_time_transactions) :
          one_time_transactions[i].date # one_time_transactions[j].date
    /\ \E i \in 1..Len(one_time_transactions) :
          one_time_transactions[i].date.day # one_time_transactions[i].date.month

----------------------------------------------------------------------------
(* A tracker constructed without a persisted record, and every call and    *)
(* every new construction after it.                                        *)

InitFresh == Init /\ op.file = NoFile

SpecFresh == InitFresh /\ [][Next]_vars

----------------------------------------------------------------------------
(* C17: update_initial_balance. *)

IsUpdate(c) == c.name = "update_initial_balance"

\* a negative balance fails and changes nothing
NegativeBalanceFails ==
    IsUpdate(op') /\ op'.balance < 0 =>
        raised' /\ UNCHANGED <<tracker, data_file>>

\* a balance of 0 or more becomes both balances; the collections stay
BalanceIsSet ==
    IsUpdate(op') /\ op'.balance >= 0 =>
        /\ ~raised'
        /\ initial_balance' = op'.balance
        /\ current_balance' = op'.balance
        /\ UNCHANGED <<monthly_incomes, monthly_expenses,
                       one_time_transactions>>

\* C17 as claimed: a negative balance fails and leaves balances, collections
\* and record unchanged; a balance >= 0 (0 included) becomes initial_balance
\* and current_balance and, when the call returns, is in the persisted
\* record; and from a tracker constructed without a persisted record
\* current_balance always equals initial_balance.
C17_BalancePersisted ==
    /\ [][/\ NegativeBalanceFails
          /\ BalanceIsSet
          /\ IsUpdate(op') /\ op'.balance >= 0 => WrittenThrough']_vars
    /\ [](current_balance = initial_balance)

\* C17 as amended: a negative balance fails and leaves balances, collections
\* and record unchanged; a balance >= 0 (0 included) becomes initial_balance
\* and current_balance and save_data is called, after which the persisted
\* record holds the state if the write succeeded and otherwise is the old
\* record or is unreadable; and from a tracker constructed without a
\* persisted record current_balance always equals initial_balance.
C17_BalanceSetAndSaved ==
    /\ [][/\ NegativeBalanceFails
          /\ BalanceIsSet
          /\ IsUpdate(op') /\ op'.balance >= 0 =>
                /\ op'.write \in WriteOutcomes
                /\ op'.write = "ok" => WrittenThrough'
                /\ op'.write # "ok" =>
                      (data_file' = data_file
                          \/ data_file'.kind = "malformed")]_vars
    /\ [](current_balance = initial_balance)

\* the balance was set to 0 and written, on a tracker that holds a one-time
\* transaction besides the defaults
C17_Witness ==
    /\ IsUpdate(op)
    /\ op.balance = 0
    /\ ~raised
    /\ op.write = "ok"
    /\ initial_balance = 0
    /\ current_balance = 0
    /\ WrittenThrough
    /\ Len(one_time_transactions) >= 1

----------------------------------------------------------------------------
(* C13: the callback returns the forecast of the state it leaves. *)

IsCallback(c) == c.name = "update_forecast"

\* forecast_data is the projection of the tracker as it is now, from the
\* day op.start_date over op.max_days days: consecutive dates from the
\* start, on each date the stored transactions of that date in order, the
\* running balance from initial_balance, and the stop at the first balance
\* <= 0
ReflectsTracker ==
    /\ Len(forecast_data) \in 1..op.max_days
    /\ \A i \in Entries :
          LET e == forecast_data[i]
          IN  /\ Ordinal(e.date) = Ordinal(op.start_date) + i - 1
              /\ IsoValid(isoformat(e.date))
              /\ e.transactions = ExpectedOrder(e.date)
              /\ e.balance = BalanceBefore(i) + SignedOn(e.date)
              /\ i < Len(forecast_data) => e.balance > 0
    /\ Len(forecast_data) < op.max_days =>
          forecast_data[Len(forecast_data)].balance <= 0

\* what a call made by the callback did to the tracker when it returned
CallTookEffect(c) ==
    /\ IsUpdate([name |-> c.invoked]) =>
          initial_balance' = c.balance /\ current_balance' = c.balance
    /\ c.invoked = "add_monthly_income" =>
          AppendsOne(monthly_incomes, monthly_incomes')
    /\ c.invoked = "add_monthly_expense" =>
          AppendsOne(monthly_expenses, monthly_expenses')
    /\ c.invoked \in OneTimeAdds =>
          AppendsOne(one_time_transactions, one_time_transactions')

\* C13: every invocation of update_forecast completes normally and its
\* forecast is the projection of the tracker as the invocation leaves it:
\* of the new state after an add or balance update that returned, and of
\* the unchanged state when the call raised a validation error.
C13_ForecastOfStateAfter ==
    /\ [](IsCallback(op) => ~raised /\ ReflectsTracker)
    /\ [][IsCallback(op') =>
             /\ (op'.invoked # "none" /\ ~op'.caught) => CallTookEffect(op')
             /\ op'.caught => UNCHANGED <<tracker, data_file>>]_vars

\* the callback added a one-time income and its forecast has it on its date
C13_Witness ==
    /\ IsCallback(op)
    /\ op.invoked = "add_income"
    /\ ~op.caught
    /\ \E i \in Entries :
          /\ forecast_data[i].date = op.date
          /\ i > 1
          /\ forecast_data[i].balance =
                forecast_data[i - 1].balance + SignedOn(op.date)
          /\ \E k \in 1..Len(forecast_data[i].transactions) :
                forecast_data[i].transactions[k] =
                    [type |-> "income", name |-> op.tname,
                     amount |-> op.amount, color |-> "green"]

----------------------------------------------------------------------------
(* C18: which tracker method a callback invocation calls. *)

\* the method of each button
MethodsOf(button) ==
    IF button = "update-balance-button" THEN {"update_initial_balance"}
    ELSE IF button = "add-monthly-income-button" THEN {"add_monthly_income"}
    ELSE IF button = "add-monthly-expense-button" THEN {"add_monthly_expense"}
    ELSE IF button = "add-transaction-button" THEN OneTimeAdds
    ELSE {}

\* a form value the button of the call c requires is missing, empty or 0;
\* for the balance button only a missing balance counts
RequiredValueAbsent(c) ==
    \/ /\ c.button = "update-balance-button"
       /\ "balance" \in c.missing
    \/ /\ c.button \in {"add-monthly-income-button",
                        "add-monthly-expense-button"}
       /\ \/ "day" \in c.missing \/ c.day = 0
          \/ "amount" \in c.missing \/ c.amount = 0
          \/ "name" \in c.missing \/ c.tname = ""
    \/ /\ c.button = "add-transaction-button"
       /\ \/ "date" \in c.missing \/ c.date = NoDate
          \/ "amount" \in c.missing \/ c.amount = 0
          \/ "name" \in c.missing \/ c.tname = ""

\* the part of the tracker the method m does not touch
LeavesTheRest(m) ==
    /\ m = "none" => UNCHANGED <<tracker, data_file>>
    /\ m = "update_initial_balance" =>
          UNCHANGED <<monthly_incomes, monthly_expenses,
                      one_time_transactions>>
    /\ m = "add_monthly_income" =>
          UNCHANGED <<initial_balance, current_balance, monthly_expenses,
                      one_time_transactions>>
    /\ m = "add_monthly_expense" =>
          UNCHANGED <<initial_balance, current_balance, monthly_incomes,
                      one_time_transactions>>
    /\ m \in OneTimeAdds =>
          UNCHANGED <<initial_balance, current_balance, monthly_incomes,
                      monthly_expenses>>

\* C18: a callback invocation calls at most one tracker method, one of its
\* triggering button (none without a click), and only what that method
\* assigns changes; when a value its button requires is missing, empty or 0
\* (for the balance button: missing; 0 is accepted there) no method is
\* called, no validation error is raised, and tracker and persisted record
\* are unchanged; with all required values present the method is called.
C18_OneOperationPerButton ==
    [][IsCallback(op') =>
          /\ op'.invoked \in MethodsOf(op'.button) \cup {"none"}
          /\ LeavesTheRest(op'.invoked)
          /\ RequiredValueAbsent(op') =>
                /\ op'.invoked = "none"
                /\ ~op'.caught
                /\ UNCHANGED <<tracker, data_file>>
          /\ (op'.button # "No clicks yet" /\ ~RequiredValueAbsent(op')) =>
                op'.invoked # "none"]_vars

\* the recurring-income button was pressed with an amount of 0: nothing was
\* called, nothing was caught, and a forecast was returned
C18_Witness ==
    /\ IsCallback(op)
    /\ op.button = "add-monthly-income-button"
    /\ op.missing = {}
    /\ op.amount = 0
    /\ op.day # 0
    /\ op.tname # ""
    /\ op.invoked = "none"
    /\ ~op.caught
    /\ Len(forecast_data) >= 2

----------------------------------------------------------------------------
(* C12: two adds at the same time. *)

\* the list of the record that the method appends to
RecordListOf(method, f) ==
    IF method = "add_monthly_income" THEN f.monthly_incomes
    ELSE IF method = "add_monthly_expense" THEN f.monthly_expenses
    ELSE f.one_time_transactions

\* the transaction thread t appended, as save_data writes it
WrittenFormOf(t) ==
    LET x == CollectionOf(threads[t].method, Current)[threads[t].index]
    IN  IF threads[t].method \in MonthlyAdds THEN TxDict(x) ELSE OtDict(x)

\* the persisted record has the transaction thread t appended
RecordHasAppendOf(t) ==
    /\ data_file.kind = "json"
    /\ Len(RecordListOf(threads[t].method, data_file)) >= threads[t].index
    /\ RecordListOf(threads[t].method, data_file)[threads[t].index]
           = WrittenFormOf(t)

\* both adds appended, wrote their file without failure and returned
BothCompleted ==
    \A t \in Threads :
        /\ threads[t].pc = "done"
        /\ ~threads[t].raised
        /\ threads[t].write = "ok"

\* C12: once two concurrent add operations have both completed, whatever
\* the interleaving of their append, snapshot and write steps, the persisted
\* record contains both appended transactions.
C12_NoLostUpdate ==
    BothCompleted => \A t \in Threads : RecordHasAppendOf(t)

====
